---------------------------- MODULE Spec2Model ----------------------------
(***************************************************************************)
(* A model of the chart lifecycle layer of dc.js:                          *)
(*   src/src/core/events.ts      the throttled trigger (events.trigger)    *)
(*   src/src/base/base-mixin.ts  BaseMixin: anchor, chart group, filters,  *)
(*                               render/redraw and the group requests      *)
(* The chart group, the chart registry and the data provider               *)
(* (CFSimpleAdapter) are collaborators whose code is not part of the       *)
(* sources; they are modelled from their contract.                         *)
(*                                                                         *)
(* Operators named after a method take the world (a record of the whole    *)
(* program state) and return the world after the call, so that a method    *)
(* that calls other methods is the composition of their operators.  The    *)
(* actions draw the arguments and commit the resulting world.              *)
(***************************************************************************)
EXTENDS Integers, Sequences, FiniteSets, TLC

VARIABLES
    current,      \* events.current: the closure of the latest delayed trigger
    timers,       \* the timers setTimeout has scheduled and that have not fired
    timerSeq,     \* the id setTimeout gave to the last timer
    now,          \* the clock, in units of delay
    hist,         \* what happened to the throttled trigger, in order
    charts,       \* the BaseMixin objects, by chart
    registry,     \* each chart group's registered charts, in registration order
    dp,           \* the data providers (filter storage bindings)
    dom,          \* the DOM: per element its measured box and its controls
    svgs,         \* the svg elements: their size attributes
    transitions,  \* per svg element, the transition that has not ended
    requests,     \* the continuations handed to commit handlers
    trace,        \* the last operation: the call, then what it did, in order
    exception     \* what the last operation threw

vars == <<current, timers, timerSeq, now, hist, charts, registry, dp, dom,
          svgs, transitions, requests, trace, exception>>

---------------------------------------------------------------------------
(* Bounds *)

\* trigger calls of one behaviour
MaxCalls == 3
\* the largest delay passed to trigger
MaxDelay == 2
\* the clock stops here
MaxTime == 2
\* group requests whose continuation a commit handler holds
MaxRequests == 2
\* times the binding of one chart is disposed
MaxDisposals == 2

---------------------------------------------------------------------------
(* Values *)

\* `delay` not passed: undefined
NoDelay == -1

\* a number that is not set: undefined
NoNumber == -1

\* the functions a caller passes to events.trigger, by identity
CallbackIds == {"a", "b"}

ChartIds == {"c1", "c2", "c3"}

\* "g0" is the registry's default group
Groups == {"g0", "g1"}

Elements == {"e1", "e2"}

\* the id attribute of an element, as the tokens of the string; e2 has none
ElemIdAttr(e) == IF e = "e1" THEN <<"a">> ELSE <<>>

\* the selector strings callers anchor to
Selectors == {<<"#", "a">>}

BindingSeq == <<"b1", "b2", "b3", "b4">>

BindingIds == {BindingSeq[i] : i \in DOMAIN BindingSeq}

\* the svg elements charts append to their roots
SvgSeq == <<"s1", "s2", "s3", "s4">>

SvgIds == {SvgSeq[i] : i \in DOMAIN SvgSeq}

NoSvg == [made |-> FALSE, width |-> NoNumber, height |-> NoNumber, viewBox |-> <<>>]

\* filter values; null is the string "null"
NullFilter == "null"

FilterValues == {"x", "y"}

\* the records a click carries
Datums == [key : FilterValues, value : {"v1"}]

NullClosure == [kind |-> "null", id |-> "", chart |-> "", filter |-> ""]

Callback(id) == [kind |-> "cb", id |-> id, chart |-> "", filter |-> ""]

Callbacks == {Callback(id) : id \in CallbackIds}

DelayArgs == {NoDelay} \cup (0 .. MaxDelay)

\* !delay
Falsy(delay) == delay = NoDelay \/ delay = 0

HistEntry(type, closure, delay, timer) ==
    [type |-> type, closure |-> closure, delay |-> delay, timer |-> timer]

Ev(ev, chart, arg) == [ev |-> ev, chart |-> chart, arg |-> arg]

\* the values of _anchor: a selector string, an element, or undefined
UndefinedAnchor == [t |-> "undefined", v |-> <<>>]

StringAnchor(tokens) == [t |-> "string", v |-> tokens]

ElementAnchor(e) == [t |-> "element", v |-> <<e>>]

\* what a caller passes to anchor() and to the constructor as parent
ParentArg(t, v) == [t |-> t, v |-> v]

\* what a caller passes as chart group: nothing, a name, or a group
GroupArg(t, v) == [t |-> t, v |-> v]

World ==
    [current |-> current, timers |-> timers, timerSeq |-> timerSeq,
     now |-> now, hist |-> hist, charts |-> charts, registry |-> registry,
     dp |-> dp, dom |-> dom, svgs |-> svgs, transitions |-> transitions,
     requests |-> requests, trace |-> trace, exception |-> exception]

Commit(w) ==
    /\ current' = w.current
    /\ timers' = w.timers
    /\ timerSeq' = w.timerSeq
    /\ now' = w.now
    /\ hist' = w.hist
    /\ charts' = w.charts
    /\ registry' = w.registry
    /\ dp' = w.dp
    /\ dom' = w.dom
    /\ svgs' = w.svgs
    /\ transitions' = w.transitions
    /\ requests' = w.requests
    /\ trace' = w.trace
    /\ exception' = w.exception

\* the program starts in world w
Start(w) ==
    /\ current = w.current
    /\ timers = w.timers
    /\ timerSeq = w.timerSeq
    /\ now = w.now
    /\ hist = w.hist
    /\ charts = w.charts
    /\ registry = w.registry
    /\ dp = w.dp
    /\ dom = w.dom
    /\ svgs = w.svgs
    /\ transitions = w.transitions
    /\ requests = w.requests
    /\ trace = w.trace
    /\ exception = w.exception

\* the world as a call finds it: nothing done yet, nothing thrown
Begin(name, chart, arg) ==
    [World EXCEPT !.trace = <<Ev(name, chart, arg)>>, !.exception = "none"]

\* the same, for a call whose steps are not followed
BeginQuiet == [World EXCEPT !.trace = <<>>, !.exception = "none"]

emit(w, ev, chart, arg) == [w EXCEPT !.trace = Append(@, Ev(ev, chart, arg))]

RemoveAt(s, i) == SubSeq(s, 1, i - 1) \o SubSeq(s, i + 1, Len(s))

Contains(s, x) == \E i \in DOMAIN s : s[i] = x

RECURSIVE Without(_, _)
Without(s, x) ==
    IF s = <<>> THEN <<>>
    ELSE IF Head(s) = x THEN Without(Tail(s), x)
    ELSE <<Head(s)>> \o Without(Tail(s), x)

---------------------------------------------------------------------------
(* The objects *)

\* the configuration the constructor sets; the label, title and printer
\* entries take no part in the lifecycle and are left out
DefaultMinWidth == 200

DefaultMinHeight == 200

DefaultTransitionDuration == 750

DefaultTransitionDelay == 0

DefaultConf ==
    [minWidth |-> DefaultMinWidth, minHeight |-> DefaultMinHeight,
     useViewBoxResizing |-> FALSE, controlsUseVisibility |-> FALSE,
     transitionDuration |-> DefaultTransitionDuration,
     transitionDelay |-> DefaultTransitionDelay,
     commitHandler |-> FALSE, keyAccessor |-> "key"]

\* _defaultWidthCalc, _defaultHeightCalc as the value of _widthCalc, _heightCalc
DefaultCalc == [kind |-> "default", v |-> 0]

\* a chart that has not been constructed
NoChart ==
    [made |-> FALSE, flag |-> "", anchor |-> UndefinedAnchor,
     root |-> "undefined", svg |-> "none", isChild |-> FALSE,
     chartGroup |-> "", dataProvider |-> "", widthCalc |-> DefaultCalc,
     width |-> NoNumber, heightCalc |-> DefaultCalc, height |-> NoNumber,
     legend |-> FALSE, conf |-> DefaultConf,
     listeners |-> {},  \* the events whose listener reads width() and height()
     parent |-> ""]     \* bookkeeping: the chart anchor() was last given

\* uniqueId().toString(): a string no other chart has
DcFlag(c) == c

NoBindingConf ==
    [chartId |-> <<>>, primaryChart |-> FALSE, filterStorage |-> "", owner |-> ""]

\* a data provider nobody has created
NoBinding == [made |-> FALSE, filters |-> <<>>, disposed |-> 0, conf |-> NoBindingConf]

---------------------------------------------------------------------------
(* base-mixin.ts: anchor, root, chart group *)

\* anchor()
getAnchor(w, c) == w.charts[c].anchor

\* root()
getRoot(w, c) == w.charts[c].root

\* chartGroup()
getChartGroup(w, c) == w.charts[c].chartGroup

\* chartID()
chartID(w, c) == w.charts[c].flag

\* String.replace('#', ''): the string without its first '#'
RECURSIVE StripHash(_)
StripHash(tokens) ==
    IF tokens = <<>> THEN <<>>
    ELSE IF Head(tokens) = "#" THEN Tail(tokens)
    ELSE <<Head(tokens)>> \o StripHash(Tail(tokens))

anchorName(w, c) ==
    LET a == getAnchor(w, c) IN
    IF a.t = "string" /\ a.v # <<>> THEN StripHash(a.v)
    ELSE IF a.t = "element" /\ ElemIdAttr(a.v[1]) # <<>> THEN ElemIdAttr(a.v[1])
    ELSE <<"dc-chart", chartID(w, c)>>

\* d3's select(anchor): the element a selector names or the element itself;
\* "empty" is the selection of nothing
select(a) ==
    IF a.t = "element" THEN a.v[1]
    ELSE IF \E e \in Elements : <<"#">> \o ElemIdAttr(e) = a.v
         THEN CHOOSE e \in Elements : <<"#">> \o ElemIdAttr(e) = a.v
         ELSE "empty"

\* selection.node()
node(r) == IF r \in Elements THEN r ELSE "null"

\* a seeded fault: the chart is added to the members at every call
register_Push(w, g, c) == [w EXCEPT !.registry[g] = Append(@, c)]

\* IChartGroup.register: the chart joins the members, once
register(w, g, c) ==
    IF Contains(w.registry[g], c) THEN w
    ELSE [w EXCEPT !.registry[g] = Append(@, c)]

\* IChartGroup.deregister
deregister(w, g, c) == [w EXCEPT !.registry[g] = Without(@, c)]

\* chartRegistry.chartGroup(name): the group of that name, the default group
\* for no name
registryChartGroup(name) == IF name = "" THEN "g0" ELSE name

_getChartGroup(chartGroup) ==
    IF chartGroup.t = "none" THEN registryChartGroup("")
    ELSE IF chartGroup.t = "name" THEN registryChartGroup(chartGroup.v)
    ELSE chartGroup.v

throw(w, e) == [w EXCEPT !.exception = e]

\* if (parent): undefined, null and the empty string are falsy
Truthy(parent) ==
    /\ parent.t # "none"
    /\ ~(parent.t = "string" /\ parent.v = <<>>)

\* a seeded fault: the anchor is forgotten before the argument is refused
anchor_ForgetThenThrow(w, c, parent) ==
    IF parent.t = "chart"
    THEN LET p == parent.v[1]
             a == getAnchor(w, p)
         IN [w EXCEPT !.charts[c].anchor =
                          IF a.t = "element"
                          THEN StringAnchor(<<"#">> \o anchorName(w, p))
                          ELSE a,
                      !.charts[c].root = getRoot(w, p),
                      !.charts[c].isChild = TRUE,
                      !.charts[c].parent = p]
    ELSE IF Truthy(parent)
    THEN LET a == IF parent.t = "d3" THEN ElementAnchor(parent.v[1]) ELSE parent
             r == select(a)
             w1 == [w EXCEPT !.charts[c].anchor = a,
                             !.charts[c].root = r,
                             !.dom = IF r \in Elements
                                     THEN [@ EXCEPT ![r].marked = TRUE] ELSE @]
             w2 == register(w1, w1.charts[c].chartGroup, c)
         IN [w2 EXCEPT !.charts[c].isChild = FALSE, !.charts[c].parent = ""]
    ELSE throw([w EXCEPT !.charts[c].anchor = UndefinedAnchor,
                         !.charts[c].isChild = FALSE], "BadArgumentException")

\* anchor(parent)
anchor(w, c, parent) ==
    IF parent.t = "chart"
    THEN LET p == parent.v[1]
             a == getAnchor(w, p)
         IN [w EXCEPT !.charts[c].anchor =
                          IF a.t = "element"
                          THEN StringAnchor(<<"#">> \o anchorName(w, p))
                          ELSE a,
                      !.charts[c].root = getRoot(w, p),
                      !.charts[c].isChild = TRUE,
                      !.charts[c].parent = p]
    ELSE IF Truthy(parent)
    THEN LET a == IF parent.t = "d3" THEN ElementAnchor(parent.v[1]) ELSE parent
             r == select(a)
             w1 == [w EXCEPT !.charts[c].anchor = a,
                             !.charts[c].root = r,
                             !.dom = IF r \in Elements
                                     THEN [@ EXCEPT ![r].marked = TRUE] ELSE @]
             w2 == register(w1, w1.charts[c].chartGroup, c)
         IN [w2 EXCEPT !.charts[c].isChild = FALSE, !.charts[c].parent = ""]
    ELSE throw(w, "BadArgumentException")

\* root(rootElement)
root(w, c, rootElement) == [w EXCEPT !.charts[c].root = rootElement]

\* chartGroup(chartGroup)
chartGroup(w, c, g) ==
    LET w1 == IF ~w.charts[c].isChild
              THEN deregister(w, w.charts[c].chartGroup, c) ELSE w
        w2 == [w1 EXCEPT !.charts[c].chartGroup = _getChartGroup(g)]
    IN IF ~w2.charts[c].isChild
       THEN register(w2, w2.charts[c].chartGroup, c) ELSE w2

---------------------------------------------------------------------------
(* base-mixin.ts: controls and filters, and the data provider they use *)

dpOf(w, c) == w.charts[c].dataProvider

\* CFSimpleAdapter.hasFilter(): is any filter active
DP_hasFilter(w, b) == w.dp[b].filters # <<>>

\* CFSimpleAdapter.resetFilters(): no filter is left, nobody is told
DP_resetFilters(w, b) == [w EXCEPT !.dp[b].filters = <<>>]

hasFilter(w, c) == DP_hasFilter(w, dpOf(w, c))

filters(w, c) == w.dp[dpOf(w, c)].filters

turnOnControls(w, c) ==
    LET r == getRoot(w, c) IN
    IF r # "undefined"
    THEN emit([w EXCEPT !.dom = IF r \in Elements
                                 THEN [@ EXCEPT ![r].controls = "on"] ELSE @],
              "turnOnControls", c, <<>>)
    ELSE w

turnOffControls(w, c) ==
    LET r == getRoot(w, c) IN
    IF r # "undefined"
    THEN emit([w EXCEPT !.dom = IF r \in Elements
                                 THEN [@ EXCEPT ![r].controls = "off"] ELSE @],
              "turnOffControls", c, <<>>)
    ELSE w

\* what a listener that was passed nothing receives
Undefined == <<"undefined">>

\* a seeded fault: an empty filter list is not announced
_invokeFilteredListener_SkipEmpty(w, c, f) ==
    IF f # Undefined /\ f # <<>> THEN emit(w, "filtered", c, f) ELSE w

_invokeFilteredListener(w, c, f) ==
    IF f # Undefined THEN emit(w, "filtered", c, f) ELSE w

\* a seeded fault: the controls are turned on at every notification
_filtersChanged_ControlsOn(w, c, fs) ==
    turnOnControls(_invokeFilteredListener(w, c, fs), c)

_filtersChanged(w, c, fs) ==
    LET w1 == _invokeFilteredListener(w, c, fs) IN
    IF getRoot(w1, c) # "null" /\ hasFilter(w1, c)
    THEN turnOnControls(w1, c)
    ELSE turnOffControls(w1, c)

\* CFSimpleAdapter.filter(value): null clears, a value joins the active
\* filters; the chart that configured the provider is told once, with the
\* filters as they now are
DP_filter(w, b, v) ==
    LET old == w.dp[b].filters
        new == IF v = NullFilter THEN <<>>
               ELSE IF Contains(old, v) THEN old ELSE Append(old, v)
        w1 == emit([w EXCEPT !.dp[b].filters = new], "dp.filter", w.dp[b].conf.owner, <<v>>)
    IN IF w.dp[b].conf.owner # ""
       THEN _filtersChanged(w1, w.dp[b].conf.owner, new)
       ELSE w1

\* filter(filter)
filter(w, c, v) == DP_filter(w, dpOf(w, c), v)

\* a seeded fault: the filters are cleared through filter(null)
replaceFilter_ClearThenFilter(w, c, v) ==
    filter(filter(w, c, NullFilter), c, v)

replaceFilter(w, c, v) == filter(DP_resetFilters(w, dpOf(w, c)), c, v)

filterAll(w, c) == filter(w, c, NullFilter)

---------------------------------------------------------------------------
(* base-mixin.ts: sizing *)

\* isNumber(n)
isNumber(n) == n # NoNumber

\* a sizing callback the caller passed, known by its number: it reads the
\* element it is given
UserCalc(f, element, dim) ==
    IF element = "e1" THEN 100 + f
    ELSE IF element = "e2" THEN 300 + f
    ELSE f

\* a seeded fault: the measured box is returned whatever the minimum
defaultCalc_NoMinimum(w, c, element, dim) ==
    IF element = "null" THEN 0 ELSE w.dom[element].box[dim]

\* _defaultWidthCalc, _defaultHeightCalc: the measured box if it exceeds the
\* configured minimum, else the minimum
defaultCalc(w, c, element, dim) ==
    LET min == IF dim = "width" THEN w.charts[c].conf.minWidth
               ELSE w.charts[c].conf.minHeight
        box == IF element = "null" THEN 0 ELSE w.dom[element].box[dim]
    IN IF box # 0 /\ box > min THEN box ELSE min

\* this._widthCalc(element), this._heightCalc(element)
applyCalc(w, c, calc, element, dim) ==
    IF calc.kind = "default" THEN defaultCalc(w, c, element, dim)
    ELSE IF calc.kind = "const" THEN calc.v
    ELSE UserCalc(calc.v, element, dim)

\* width(): the calculation is called, and recorded, if nothing is cached
getWidth(w, c) ==
    IF ~isNumber(w.charts[c].width)
    THEN emit([w EXCEPT !.charts[c].width =
                   applyCalc(w, c, w.charts[c].widthCalc, node(getRoot(w, c)), "width")],
              "_widthCalc", c, <<node(getRoot(w, c))>>)
    ELSE w

\* height()
getHeight(w, c) ==
    IF ~isNumber(w.charts[c].height)
    THEN emit([w EXCEPT !.charts[c].height =
                   applyCalc(w, c, w.charts[c].heightCalc, node(getRoot(w, c)), "height")],
              "_heightCalc", c, <<node(getRoot(w, c))>>)
    ELSE w

\* on(event, listener), for a listener that reads chart.width() and
\* chart.height()
on(w, c, event) == [w EXCEPT !.charts[c].listeners = @ \cup {event}]

\* this._listeners.call(event, this, this): the event, then what its
\* listener reads
_listenersCall(w, c, event) ==
    LET w1 == emit(w, event, c, <<>>) IN
    IF event \in w.charts[c].listeners
    THEN LET w2 == getHeight(getWidth(w1, c), c)
         IN emit(w2, "listener", c, <<w2.charts[c].width, w2.charts[c].height>>)
    ELSE w1

\* the value of _widthCalc, _heightCalc a setter argument gives:
\* a callback is kept, a number becomes a constant function, falsy the default
calcOf(arg) ==
    IF arg.kind = "fn" THEN arg
    ELSE IF arg.kind = "number" /\ arg.v # 0 THEN [kind |-> "const", v |-> arg.v]
    ELSE DefaultCalc

\* width(width)
width(w, c, arg) ==
    [w EXCEPT !.charts[c].widthCalc = calcOf(arg), !.charts[c].width = NoNumber]

\* height(height)
height(w, c, arg) ==
    [w EXCEPT !.charts[c].heightCalc = calcOf(arg), !.charts[c].height = NoNumber]

sizeSvg(w, c) ==
    LET s == w.charts[c].svg IN
    IF s # "none"
    THEN IF ~w.charts[c].conf.useViewBoxResizing
         THEN LET w1 == getWidth(w, c)
                  w2 == getHeight(w1, c)
              IN [w2 EXCEPT !.svgs[s].width = w2.charts[c].width,
                            !.svgs[s].height = w2.charts[c].height]
         ELSE IF w.svgs[s].viewBox = <<>>
         THEN LET w1 == getWidth(w, c)
                  w2 == getHeight(w1, c)
              IN [w2 EXCEPT !.svgs[s].viewBox =
                                <<w2.charts[c].width, w2.charts[c].height>>]
         ELSE w
    ELSE w

\* root.append('svg'): an svg element nobody holds yet
NewSvg(w) ==
    SvgSeq[CHOOSE i \in DOMAIN SvgSeq :
               /\ ~w.svgs[SvgSeq[i]].made
               /\ \A j \in 1 .. i - 1 : w.svgs[SvgSeq[j]].made]

generateSvg(w, c) ==
    LET s == NewSvg(w) IN
    sizeSvg([w EXCEPT !.svgs[s] = [NoSvg EXCEPT !.made = TRUE],
                      !.charts[c].svg = s], c)

\* configure(conf): the entries of conf replace those of _conf
configure(w, c, conf) ==
    [w EXCEPT !.charts[c].conf =
        [k \in DOMAIN @ |-> IF k \in DOMAIN conf THEN conf[k] ELSE @[k]]]

---------------------------------------------------------------------------
(* base-mixin.ts: render and redraw *)

\* d3's selection.transition()...on('end', callback): the callback waits for
\* the transition to end; a transition started on an element replaces the
\* one still running there, which is interrupted and never ends
startTransition(w, s, c, event) ==
    LET w1 == IF w.transitions[s] # <<>>
              THEN emit(w, "interrupt", w.transitions[s][1].chart,
                        <<w.transitions[s][1].event>>)
              ELSE w
    IN [w1 EXCEPT !.transitions[s] = <<[chart |-> c, event |-> event]>>]

\* the renderlet listeners, then those of the event
fireRenderlets(w, c, event) ==
    LET w1 == _listenersCall(w, c, "renderlet") IN
    IF event # "" THEN _listenersCall(w1, c, event) ELSE w1

\* a seeded fault: a transition started while another runs waits behind it,
\* and the one that runs is left to end
_activateRenderlets_Queue(w, c, event) ==
    LET w1 == _listenersCall(w, c, "pretransition") IN
    IF w1.charts[c].conf.transitionDuration > 0 /\ w1.charts[c].svg # "none"
    THEN [w1 EXCEPT !.transitions[w1.charts[c].svg] =
                        Append(@, [chart |-> c, event |-> event])]
    ELSE fireRenderlets(w1, c, event)

\* a seeded fault: the notifications are fired without waiting for the
\* transition
_activateRenderlets_AtOnce(w, c, event) ==
    fireRenderlets(_listenersCall(w, c, "pretransition"), c, event)

_activateRenderlets(w, c, event) ==
    LET w1 == _listenersCall(w, c, "pretransition") IN
    IF w1.charts[c].conf.transitionDuration > 0 /\ w1.charts[c].svg # "none"
    THEN startTransition(w1, w1.charts[c].svg, c, event)
    ELSE fireRenderlets(w1, c, event)

\* legend(legend): a legend widget is attached
legend(w, c) == [w EXCEPT !.charts[c].legend = TRUE]

\* this._legend.render(), if a legend is attached
legendRender(w, c) ==
    IF w.charts[c].legend THEN emit(w, "legend.render", c, <<>>) ELSE w

\* a seeded fault: the cached sizes are forgotten after the preRender hook
render_DiscardAfterHook(w, c) ==
    LET w1 == _listenersCall(w, c, "preRender")
        w2 == [w1 EXCEPT !.charts[c].height = NoNumber, !.charts[c].width = NoNumber]
        w3 == emit(w2, "_doRender", c, <<>>)
        w4 == legendRender(w3, c)
    IN _activateRenderlets(w4, c, "postRender")

render(w, c) ==
    LET w1 == [w EXCEPT !.charts[c].height = NoNumber, !.charts[c].width = NoNumber]
        w2 == _listenersCall(w1, c, "preRender")
        w3 == emit(w2, "_doRender", c, <<>>)
        w4 == legendRender(w3, c)
    IN _activateRenderlets(w4, c, "postRender")

\* a seeded fault: the legend is rendered after the pretransition hook
redraw_LegendLast(w, c) ==
    LET w1 == sizeSvg(w, c)
        w2 == _listenersCall(w1, c, "preRedraw")
        w3 == emit(w2, "_doRedraw", c, <<>>)
    IN legendRender(_activateRenderlets(w3, c, "postRedraw"), c)

\* a seeded fault: redraw forgets the cached sizes, as render does
redraw_ForcesRecalculate(w, c) ==
    LET w0 == [w EXCEPT !.charts[c].height = NoNumber, !.charts[c].width = NoNumber]
        w1 == sizeSvg(w0, c)
        w2 == _listenersCall(w1, c, "preRedraw")
        w3 == emit(w2, "_doRedraw", c, <<>>)
        w4 == legendRender(w3, c)
    IN _activateRenderlets(w4, c, "postRedraw")

redraw(w, c) ==
    LET w1 == sizeSvg(w, c)
        w2 == _listenersCall(w1, c, "preRedraw")
        w3 == emit(w2, "_doRedraw", c, <<>>)
        w4 == legendRender(w3, c)
    IN _activateRenderlets(w4, c, "postRedraw")

RECURSIVE redrawEach(_, _)
redrawEach(w, members) ==
    IF members = <<>> THEN w
    ELSE redrawEach(redraw(w, Head(members)), Tail(members))

RECURSIVE renderEach(_, _)
renderEach(w, members) ==
    IF members = <<>> THEN w
    ELSE renderEach(render(w, Head(members)), Tail(members))

\* the sequence backwards
RECURSIVE Reverse(_)
Reverse(q) == IF q = <<>> THEN <<>> ELSE Append(Reverse(Tail(q)), Head(q))

\* a seeded fault: the members are redrawn last registered first
redrawAll_LastFirst(w, g) ==
    redrawEach(emit(w, "redrawAll", g, <<>>), Reverse(w.registry[g]))

\* IChartGroup.redrawAll(): redraw() on every member, in registration order
redrawAll(w, g) == redrawEach(emit(w, "redrawAll", g, <<>>), w.registry[g])

\* IChartGroup.renderAll(): render() on every member, in registration order
renderAll(w, g) == renderEach(emit(w, "renderAll", g, <<>>), w.registry[g])

---------------------------------------------------------------------------
(* base-mixin.ts: the group requests and the commit handler *)

\* this._conf.commitHandler(false, continuation): the handler is the
\* caller's; it holds the continuation and calls it when it likes.  `asked`
\* is the group the chart was in when it asked; the continuation holds the
\* chart, not the group, and `asked` is kept for reading only
commitHandler(w, c, action) ==
    emit([w EXCEPT !.requests =
              Append(@, [chart |-> c, action |-> action,
                         asked |-> getChartGroup(w, c)])],
         "commitHandler", c, <<>>)

\* a seeded fault: the continuation acts on the group the chart was in when
\* it asked
continuation_AskedGroup(w, r, error) ==
    LET c == w.requests[r].chart IN
    IF error
    THEN emit(w, "console.log", c, <<>>)
    ELSE IF w.requests[r].action = "redrawAll"
         THEN redrawAll(w, w.requests[r].asked)
         ELSE renderAll(w, w.requests[r].asked)

\* a seeded fault: the continuation does not look at its error
continuation_IgnoreError(w, r, error) ==
    LET c == w.requests[r].chart IN
    IF w.requests[r].action = "redrawAll"
    THEN redrawAll(w, getChartGroup(w, c))
    ELSE renderAll(w, getChartGroup(w, c))

\* the continuation (error, result) => {...} of request r
continuation(w, r, error) ==
    LET c == w.requests[r].chart IN
    IF error
    THEN emit(w, "console.log", c, <<>>)
    ELSE IF w.requests[r].action = "redrawAll"
         THEN redrawAll(w, getChartGroup(w, c))
         ELSE renderAll(w, getChartGroup(w, c))

\* a seeded fault: the group is redrawn without waiting for the handler
redrawGroup_Eager(w, c) ==
    IF w.charts[c].conf.commitHandler
    THEN redrawAll(commitHandler(w, c, "redrawAll"), getChartGroup(w, c))
    ELSE redrawAll(w, getChartGroup(w, c))

redrawGroup(w, c) ==
    IF w.charts[c].conf.commitHandler
    THEN commitHandler(w, c, "redrawAll")
    ELSE redrawAll(w, getChartGroup(w, c))

renderGroup(w, c) ==
    IF w.charts[c].conf.commitHandler
    THEN commitHandler(w, c, "renderAll")
    ELSE renderAll(w, getChartGroup(w, c))

---------------------------------------------------------------------------
(* events.ts *)

\* a seeded fault: the click's closure redraws the group, then filters
RunClosure_RedrawFirst(w, closure, timer) ==
    IF closure.kind = "click"
    THEN filter(redrawGroup(w, closure.chart), closure.chart, closure.filter)
    ELSE [w EXCEPT !.hist = Append(@, HistEntry("run", closure, 0, timer))]

\* closure(): the caller's function runs; `timer` is the timer that ran it,
\* 0 when trigger ran it itself.  The closure of onClick sets the filter and
\* asks for the group redraw.
RunClosure(w, closure, timer) ==
    IF closure.kind = "click"
    THEN redrawGroup(filter(w, closure.chart, closure.filter), closure.chart)
    ELSE [w EXCEPT !.hist = Append(@, HistEntry("run", closure, 0, timer))]

\* setTimeout(() => {...}, delay)
setTimeout(w, closure, delay) ==
    LET id == w.timerSeq + 1 IN
    [w EXCEPT !.timerSeq = id,
              !.timers = Append(@, [id |-> id, closure |-> closure,
                                    due |-> w.now + delay]),
              !.hist = Append(@, HistEntry("sched", closure, delay, id))]

\* a seeded fault: every timer runs the closure it was set for
TimerCallback_OwnSlot(w, t) ==
    RunClosure([w EXCEPT !.hist = Append(@, HistEntry("fire", t.closure, 0, t.id))],
               t.closure, t.id)

\* the timer's callback: if (closure === events.current) closure()
TimerCallback(w, t) ==
    LET w1 == [w EXCEPT !.hist = Append(@, HistEntry("fire", t.closure, 0, t.id))]
    IN IF t.closure = w1.current THEN RunClosure(w1, t.closure, t.id) ELSE w1

\* a seeded fault: the zero-delay call goes through the timer as well
trigger_Deferred(w, closure, delay) ==
    setTimeout([w EXCEPT !.current = closure], closure,
               IF Falsy(delay) THEN 0 ELSE delay)

trigger(w, closure, delay) ==
    IF Falsy(delay)
    THEN RunClosure(w, closure, 0)
    ELSE setTimeout([w EXCEPT !.current = closure], closure, delay)

---------------------------------------------------------------------------
(* base-mixin.ts: the click, the data provider, construction and disposal *)

\* this._conf.keyAccessor(datum); the constructor sets d => d.key
keyAccessor(w, c, datum) == datum.key

onClick(w, c, datum) ==
    trigger(w, [kind |-> "click", id |-> "", chart |-> c,
                filter |-> keyAccessor(w, c, datum)], NoDelay)

\* IChartGroup.filterStorage: the one filter storage of the group
filterStorage(g) == g

\* CFSimpleAdapter.dispose()
DP_dispose(w, b) == [w EXCEPT !.dp[b].disposed = @ + 1]

\* CFSimpleAdapter.configure(conf)
DP_configure(w, b, conf) == [w EXCEPT !.dp[b].conf = conf]

\* dataProvider(dataProvider)
dataProvider(w, c, b) ==
    LET w1 == IF dpOf(w, c) # "" THEN DP_dispose(w, dpOf(w, c)) ELSE w
        w2 == [w1 EXCEPT !.charts[c].dataProvider = b]
    IN DP_configure(w2, b,
           [chartId |-> anchorName(w2, c),
            primaryChart |-> ~w2.charts[c].isChild,
            filterStorage |-> filterStorage(getChartGroup(w2, c)),
            owner |-> c])

dispose(w, c) ==
    IF dpOf(w, c) # "" THEN DP_dispose(w, dpOf(w, c)) ELSE w

\* new CFSimpleAdapter(): a data provider nobody holds yet
NewBinding(w) ==
    BindingSeq[CHOOSE i \in DOMAIN BindingSeq :
                   /\ ~w.dp[BindingSeq[i]].made
                   /\ \A j \in 1 .. i - 1 : w.dp[BindingSeq[j]].made]

\* new BaseMixin(parent, chartGroup)
constructor(w, c, parent, chartGroupArg) ==
    LET w1 == [w EXCEPT !.charts[c] =
                  [NoChart EXCEPT !.flag = DcFlag(c),
                                  !.chartGroup = _getChartGroup(chartGroupArg)]]
        w2 == anchor(w1, c, parent)
        b == NewBinding(w2)
        w3 == [w2 EXCEPT !.charts[c].conf = DefaultConf,
                         !.dp[b] = [NoBinding EXCEPT !.made = TRUE]]
        w4 == dataProvider(w3, c, b)
    IN IF w2.exception # "none"
       THEN throw(w, w2.exception)
       ELSE [w4 EXCEPT !.charts[c].made = TRUE,
                       !.charts[c].widthCalc = DefaultCalc,
                       !.charts[c].heightCalc = DefaultCalc,
                       !.charts[c].width = NoNumber,
                       !.charts[c].height = NoNumber,
                       !.charts[c].legend = FALSE]

---------------------------------------------------------------------------
(* The program before any chart is constructed *)

\* the measured boxes: e1 is narrower than the minimum width, e2 has no height
InitDom ==
    [e \in Elements |->
        [box |-> IF e = "e1" THEN [width |-> 80, height |-> 300]
                 ELSE [width |-> 250, height |-> 0],
         controls |-> "unset", marked |-> FALSE]]

EmptyWorld ==
    [current |-> NullClosure, timers |-> <<>>, timerSeq |-> 0, now |-> 0,
     hist |-> <<>>,
     charts |-> [c \in ChartIds |-> NoChart],
     registry |-> [g \in Groups |-> <<>>],
     dp |-> [b \in BindingIds |-> NoBinding],
     dom |-> InitDom,
     svgs |-> [s \in SvgIds |-> NoSvg],
     transitions |-> [s \in SvgIds |-> <<>>],
     requests |-> <<>>,
     trace |-> <<>>,
     exception |-> "none"]

Made == {c \in ChartIds : charts[c].made}

\* the falsy values a caller can pass as parent: none, and the empty string
FalsyParents == {ParentArg("none", <<>>), ParentArg("string", <<>>)}

\* what a caller can pass as parent: a selector, an element, a d3 selection
\* of an element, a chart that exists, or nothing
ParentArgs(c) ==
    {ParentArg("string", s) : s \in Selectors}
        \cup {ParentArg("element", <<"e2">>), ParentArg("d3", <<"e1">>)}
        \cup {ParentArg("chart", <<p>>) : p \in Made \ {c}}
        \cup FalsyParents

\* what a caller can pass as chart group: nothing (the default group), the
\* name of a group, a group
GroupArgs == {GroupArg("none", ""), GroupArg("name", "g1"), GroupArg("group", "g0")}

---------------------------------------------------------------------------
(* Charts being constructed, anchored and moved between groups *)

\* new BaseMixin('#a') has run: chart c1 is there, in the default group
InitAnchor ==
    Start(constructor(EmptyWorld, "c1", ParentArg("string", <<"#", "a">>),
                      GroupArg("none", "")))

\* the charts of this specification
AnchorCharts == {"c1", "c2"}

Construct ==
    \E c \in AnchorCharts \ Made, g \in GroupArgs :
        \E parent \in ParentArgs(c) :
            Commit(constructor(BeginQuiet, c, parent, g))

Anchor ==
    \E c \in Made :
        \E parent \in ParentArgs(c) :
            Commit(anchor(BeginQuiet, c, parent))

ChartGroup ==
    \E c \in Made, g \in GroupArgs :
        Commit(chartGroup(BeginQuiet, c, g))

Root ==
    \E c \in Made, e \in Elements :
        Commit(root(BeginQuiet, c, e))

NextAnchor == Construct \/ Anchor \/ ChartGroup \/ Root

SpecAnchor == InitAnchor /\ [][NextAnchor]_vars

---------------------------------------------------------------------------
(* Three charts on a page: c1 on '#a' and c2 on the element e2, with an svg,
   in the default group; c3 on a selection of e1 in the group "g1" *)

PageWorld ==
    LET w1 == constructor(EmptyWorld, "c1", ParentArg("string", <<"#", "a">>),
                          GroupArg("none", ""))
        w2 == constructor(w1, "c2", ParentArg("element", <<"e2">>),
                          GroupArg("group", "g0"))
        w3 == generateSvg(w2, "c2")
    IN constructor(w3, "c3", ParentArg("d3", <<"e1">>), GroupArg("name", "g1"))

FilterArgs == FilterValues \cup {NullFilter}

\* the call, and the filters the chart had when it was made
BeginFilter(name, c, arg) ==
    LET w == Begin(name, c, arg) IN emit(w, "was", c, filters(w, c))

---------------------------------------------------------------------------
(* Filters being set, replaced and cleared *)

InitFilter == Start(PageWorld)

Filter ==
    \E c \in ChartIds, v \in FilterArgs :
        Commit(filter(BeginFilter("filter", c, <<v>>), c, v))

FilterAll ==
    \E c \in ChartIds :
        Commit(filterAll(BeginFilter("filterAll", c, <<>>), c))

ReplaceFilter ==
    \E c \in ChartIds, v \in FilterArgs :
        Commit(replaceFilter(BeginFilter("replaceFilter", c, <<v>>), c, v))

NextFilter == Filter \/ FilterAll \/ ReplaceFilter

SpecFilter == InitFilter /\ [][NextFilter]_vars

---------------------------------------------------------------------------
(* Clicks and group requests, with and without a commit handler *)

InitGroup == Start(PageWorld)

\* the charts that are clicked and asked for group requests
GroupActors == {"c1", "c3"}

\* the charts that are given, and taken, a commit handler
HandlerCharts == {"c1"}

\* a call that would hand one more continuation to a commit handler waits
\* when the handlers hold MaxRequests of them
MayRequest(c) == charts[c].conf.commitHandler => Len(requests) < MaxRequests

Configure ==
    \E c \in HandlerCharts, h \in BOOLEAN :
        Commit(configure(Begin("configure", c, <<>>), c, [commitHandler |-> h]))

RedrawGroup ==
    \E c \in GroupActors :
        /\ MayRequest(c)
        /\ Commit(redrawGroup(Begin("redrawGroup", c, <<>>), c))

RenderGroup ==
    \E c \in GroupActors :
        /\ MayRequest(c)
        /\ Commit(renderGroup(Begin("renderGroup", c, <<>>), c))

OnClick ==
    \E c \in GroupActors, d \in Datums :
        /\ MayRequest(c)
        /\ Commit(onClick(Begin("onClick", c, <<d.key, d.value>>), c, d))

\* a commit handler calls a continuation it holds, with an error
ContinueError ==
    \E r \in DOMAIN requests :
        Commit(continuation(Begin("continuation", requests[r].chart,
                                  <<"error", requests[r].action>>), r, TRUE))

\* a commit handler calls a continuation it holds, with a result
ContinueResult ==
    \E r \in DOMAIN requests :
        Commit(continuation(Begin("continuation", requests[r].chart,
                                  <<"result", requests[r].action>>), r, FALSE))

\* the transition running on an svg element ends
TransitionEnd ==
    \E s \in SvgIds :
        /\ transitions[s] # <<>>
        /\ LET t == transitions[s][1]
               w == Begin("transitionEnd", t.chart, <<>>)
           IN Commit(fireRenderlets([w EXCEPT !.transitions[s] = <<>>], t.chart, t.event))

NextGroup ==
    \/ Configure
    \/ RedrawGroup
    \/ RenderGroup
    \/ OnClick
    \/ ContinueError
    \/ ContinueResult
    \/ TransitionEnd

SpecGroup == InitGroup /\ [][NextGroup]_vars

---------------------------------------------------------------------------
(* Sizes being set, read, cached and discarded on the page of three charts;
   a chart can be given listeners that read its width and height *)

InitSize == Start(PageWorld)

\* the charts whose sizes are set and read
SizeCharts == {"c2"}

\* what a caller passes to width(...) and height(...): a number, zero, null,
\* a callback
SizeArgs ==
    {[kind |-> "number", v |-> 250], [kind |-> "number", v |-> 0],
     [kind |-> "none", v |-> 0], [kind |-> "fn", v |-> 1]}

\* the boxes an element can measure
Boxes == {[width |-> 80, height |-> 300], [width |-> 250, height |-> 0]}

\* the minimum sizes a caller configures
MinSizes == {200, 300}

\* the caller registers a preRender and a pretransition listener that read
\* the chart's sizes
On ==
    \E c \in SizeCharts :
        /\ charts[c].listeners = {}
        /\ Commit(on(on(Begin("on", c, <<>>), c, "preRender"), c, "pretransition"))

SetWidth ==
    \E c \in SizeCharts, a \in SizeArgs :
        Commit(width(Begin("width=", c, <<a>>), c, a))

SetHeight ==
    \E c \in SizeCharts, a \in SizeArgs :
        Commit(height(Begin("height=", c, <<a>>), c, a))

\* width(): the caller receives the value
GetWidth ==
    \E c \in SizeCharts :
        LET w == getWidth(Begin("width", c, <<>>), c)
        IN Commit(emit(w, "return", c, <<w.charts[c].width>>))

GetHeight ==
    \E c \in SizeCharts :
        LET w == getHeight(Begin("height", c, <<>>), c)
        IN Commit(emit(w, "return", c, <<w.charts[c].height>>))

SizeRender ==
    \E c \in SizeCharts :
        Commit(render(Begin("render", c, <<>>), c))

SizeRedraw ==
    \E c \in SizeCharts :
        Commit(redraw(Begin("redraw", c, <<>>), c))

SizeConfigure ==
    \E c \in SizeCharts, m \in MinSizes :
        Commit(configure(Begin("configure", c, <<m>>), c,
                         [minWidth |-> m, minHeight |-> m]))

SizeFilter ==
    \E c \in SizeCharts :
        Commit(filter(Begin("filter", c, <<"x">>), c, "x"))

\* the page is laid out again: the element of the chart measures another box
Resize ==
    \E c \in SizeCharts, b \in Boxes :
        LET w == Begin("resize", c, <<b.width, b.height>>)
        IN Commit([w EXCEPT !.dom[node(getRoot(w, c))].box = b])

NextSize ==
    \/ On
    \/ SetWidth
    \/ SetHeight
    \/ GetWidth
    \/ GetHeight
    \/ SizeRender
    \/ SizeRedraw
    \/ SizeConfigure
    \/ SizeFilter
    \/ Resize

SpecSize == InitSize /\ [][NextSize]_vars

---------------------------------------------------------------------------
(* Charts rendered, redrawn and disposed: c1, c2 and c3 in the default
   group, in that order; c2 has an svg and a legend *)

RenderWorld ==
    legend(chartGroup(PageWorld, "c3", GroupArg("group", "g0")), "c2")

InitRender == Start(RenderWorld)

\* the charts that are disposed
DisposedCharts == {"c1", "c2"}

\* the transition durations a caller configures
Durations == {-1, 0, DefaultTransitionDuration}

Render ==
    \E c \in ChartIds :
        Commit(render(Begin("render", c, <<>>), c))

Redraw ==
    \E c \in ChartIds :
        Commit(redraw(Begin("redraw", c, <<>>), c))

RedrawAll ==
    \E g \in Groups :
        /\ registry[g] # <<>>
        /\ Commit(redrawAll(Begin("group.redrawAll", "", <<g>>), g))

RenderAll ==
    \E g \in Groups :
        /\ registry[g] # <<>>
        /\ Commit(renderAll(Begin("group.renderAll", "", <<g>>), g))

ConfigureDuration ==
    \E c \in {"c2"}, d \in Durations :
        Commit(configure(Begin("configure", c, <<d>>), c, [transitionDuration |-> d]))

Dispose ==
    \E c \in DisposedCharts :
        /\ dp[dpOf(World, c)].disposed < MaxDisposals
        /\ Commit(dispose(Begin("dispose", c, <<>>), c))

NextRender ==
    \/ Render
    \/ Redraw
    \/ RedrawAll
    \/ RenderAll
    \/ ConfigureDuration
    \/ Dispose
    \/ TransitionEnd

SpecRender == InitRender /\ [][NextRender]_vars

---------------------------------------------------------------------------
(* The throttled trigger on its own: callers, the clock and the timers *)

NumCalls(h) == Cardinality({i \in DOMAIN h : h[i].type = "call"})

\* the timer the event loop runs next: the earliest due, the oldest among equals
NextTimer(ts) ==
    CHOOSE i \in DOMAIN ts :
        \A j \in DOMAIN ts :
            \/ ts[i].due < ts[j].due
            \/ (ts[i].due = ts[j].due /\ i <= j)

InitTrigger == Start(EmptyWorld)

Trigger ==
    /\ NumCalls(hist) < MaxCalls
    /\ \E closure \in Callbacks, delay \in DelayArgs :
          LET w == [World EXCEPT !.hist = Append(@, HistEntry("call", closure, delay, 0))]
          IN Commit(trigger(w, closure, delay))

\* a timer that is due fires; a timer may fire late, never early
Fire ==
    /\ timers # <<>>
    /\ LET i == NextTimer(timers) IN
          /\ timers[i].due <= now
          /\ Commit(TimerCallback([World EXCEPT !.timers = RemoveAt(@, i)], timers[i]))

Tick ==
    /\ now < MaxTime
    /\ now' = now + 1
    /\ UNCHANGED <<current, timers, timerSeq, hist, charts, registry, dp, dom,
                   svgs, transitions, requests, trace, exception>>

NextTrigger == Trigger \/ Fire \/ Tick

SpecTrigger == InitTrigger /\ [][NextTrigger]_vars

---------------------------------------------------------------------------
(* Reading the history of the throttled trigger *)

CallPos == {p \in DOMAIN hist : hist[p].type = "call"}

\* the trigger calls with a non-zero delay
DelayedCalls == {p \in CallPos : ~Falsy(hist[p].delay)}

\* the timer the call at p scheduled, 0 if it scheduled none
TimerOf(p) ==
    IF p + 1 \in DOMAIN hist /\ hist[p + 1].type = "sched"
    THEN hist[p + 1].timer ELSE 0

\* where timer t fired, 0 if it has not
FirePos(t) ==
    IF \E q \in DOMAIN hist : hist[q].type = "fire" /\ hist[q].timer = t
    THEN CHOOSE q \in DOMAIN hist : hist[q].type = "fire" /\ hist[q].timer = t
    ELSE 0

\* the executions of the action passed to the call whose timer is t
RanBy(t) == {q \in DOMAIN hist : hist[q].type = "run" /\ hist[q].timer = t}

\* the call at q was made while the timer of the call at p was pending
MadeWhilePending(q, p) ==
    /\ p < q
    /\ FirePos(TimerOf(p)) = 0 \/ q < FirePos(TimerOf(p))

\* the delayed call at p was followed, in its delay window, by a delayed call
Superseded(p) ==
    \E q \in DelayedCalls :
        /\ MadeWhilePending(q, p)
        /\ \A r \in DelayedCalls : ~(p < r /\ r < q)

---------------------------------------------------------------------------
(* The claims *)

\* C1: of the delayed trigger calls of one delay window (each made before the
\* timer of the one before it fires), the action of the last call runs exactly
\* once when its timer fires, and the action of no earlier call of the window
\* ever runs.
C1_OnlyLastOfWindowRuns ==
    \A p \in DelayedCalls :
        /\ Superseded(p) => RanBy(TimerOf(p)) = {}
        /\ (~Superseded(p) /\ FirePos(TimerOf(p)) # 0)
              => Cardinality(RanBy(TimerOf(p))) = 1

\* C2: a trigger call with delay absent or 0 runs its action exactly once,
\* before trigger returns, whatever timer is pending, and schedules no timer.
C2_ZeroDelayRunsAtOnce ==
    \A p \in CallPos :
        Falsy(hist[p].delay) =>
            /\ p + 1 \in DOMAIN hist
            /\ hist[p + 1] = HistEntry("run", hist[p].closure, 0, 0)
            /\ p + 2 \in DOMAIN hist => hist[p + 2].type \in {"call", "fire"}
            /\ TimerOf(p) = 0

\* C2's case: an action was run at once while a delayed one was pending
C2_Witness ==
    \E p \in CallPos, q \in DelayedCalls :
        /\ Falsy(hist[p].delay)
        /\ q < p
        /\ \E i \in DOMAIN timers : timers[i].id = TimerOf(q)
        /\ hist[p].closure # hist[q].closure

\* C3: a pending delayed action never runs once any later trigger call,
\* whatever its delay and its action, was made before its timer fired.
C3_AnyLaterCallCancels ==
    \A p \in DelayedCalls :
        (\E q \in CallPos : MadeWhilePending(q, p)) => RanBy(TimerOf(p)) = {}

\* the events of the last operation with the given name, in order
Events(name) == SelectSeq(trace, LAMBDA e : e.ev = name)

\* the charts the events with the given name were about, in order
ChartsOf(name) == [i \in DOMAIN Events(name) |-> Events(name)[i].chart]

\* where the first event with the given name is in the trace, 0 if nowhere
FirstPos(name) ==
    IF \E i \in DOMAIN trace : trace[i].ev = name
    THEN CHOOSE i \in DOMAIN trace :
             /\ trace[i].ev = name
             /\ \A j \in 1 .. i - 1 : trace[j].ev # name
    ELSE 0

\* the last operation was the call name(...)
LastCall(name) == trace # <<>> /\ trace[1].ev = name

\* C4: from any filter state, replaceFilter(v) invokes the `filtered` hook
\* exactly once, with the final filter set: {v}, or the empty set when v is
\* null; no notification with an empty or intermediate set comes before it,
\* and the chart's filters are that set.
C4_ReplaceFilterNotifiesOnce ==
    LastCall("replaceFilter") =>
        LET c == trace[1].chart
            v == trace[1].arg[1]
            final == IF v = NullFilter THEN <<>> ELSE <<v>>
        IN /\ Events("filtered") = <<Ev("filtered", c, final)>>
           /\ filters(World, c) = final

\* C4's case: a chart with two filters, neither of them v, was given v
C4_Witness ==
    /\ LastCall("replaceFilter")
    /\ trace[1].arg[1] # NullFilter
    /\ trace[2].ev = "was"
    /\ Len(trace[2].arg) = 2
    /\ Events("filtered") # <<>>

\* C5: filter(null), and filterAll(), leave the chart with no active filter
\* and invoke the `filtered` hook exactly once, with the empty filter set.
C5_ClearNotifiesOnceWithEmptySet ==
    (LastCall("filterAll")
        \/ (LastCall("filter") /\ trace[1].arg = <<NullFilter>>)) =>
        LET c == trace[1].chart
        IN /\ Events("filtered") = <<Ev("filtered", c, <<>>)>>
           /\ filters(World, c) = <<>>
           /\ ~hasFilter(World, c)

\* C5's case: filterAll() on a chart that had filters
C5_Witness ==
    /\ LastCall("filterAll")
    /\ trace[2].ev = "was"
    /\ trace[2].arg # <<>>
    /\ filters(World, trace[1].chart) = <<>>

\* the group actions and the draw steps
GroupEvents == {"redrawAll", "renderAll"}

DrawEvents == {"preRedraw", "_doRedraw", "preRender", "_doRender"}

\* C6: when the commit handler reports an error to the continuation of a
\* redrawGroup() or renderGroup() request, that call of the continuation
\* invokes neither redrawAll() nor renderAll(), redraws and renders no chart,
\* and throws nothing; the request itself threw nothing to its caller either.
C6_ErrorSuppressesGroupAction ==
    /\ (LastCall("continuation") /\ trace[1].arg[1] = "error") =>
            /\ \A i \in DOMAIN trace : trace[i].ev \notin GroupEvents \cup DrawEvents
            /\ Events("console.log") # <<>>
            /\ exception = "none"
    /\ (LastCall("redrawGroup") \/ LastCall("renderGroup")) => exception = "none"

\* C6's case: the handler of a redrawGroup() request reported an error
C6_Witness ==
    /\ LastCall("continuation")
    /\ trace[1].arg = <<"error", "redrawAll">>
    /\ Events("console.log") # <<>>
    /\ Len(registry[getChartGroup(World, trace[1].chart)]) > 1

\* C7: with a commit handler configured, redrawGroup(), renderGroup() and the
\* click hand the handler a continuation and invoke no group action; a call
\* of the continuation with an error invokes none; a call without error
\* invokes the requested action exactly once, on the chart's group.
C7_GroupActionOnlyOnSuccess ==
    LET acts == SelectSeq(trace, LAMBDA e : e.ev \in GroupEvents) IN
    /\ ((LastCall("redrawGroup") \/ LastCall("renderGroup") \/ LastCall("onClick"))
            /\ charts[trace[1].chart].conf.commitHandler) =>
            /\ acts = <<>>
            /\ Events("commitHandler") = <<Ev("commitHandler", trace[1].chart, <<>>)>>
            /\ \A i \in DOMAIN trace : trace[i].ev \notin DrawEvents
    /\ (LastCall("continuation") /\ trace[1].arg[1] = "error") => acts = <<>>
    /\ (LastCall("continuation") /\ trace[1].arg[1] = "result") =>
            acts = <<Ev(trace[1].arg[2],
                        getChartGroup(World, trace[1].chart), <<>>)>>

\* C7's case: a continuation of a redraw request was called without error
\* while the handler held two, and both charts of the group were redrawn
C7_Witness ==
    /\ LastCall("continuation")
    /\ trace[1].arg = <<"result", "redrawAll">>
    /\ ChartsOf("_doRedraw") = <<"c1", "c2">>
    /\ Len(requests) > 1

\* C8: onClick(datum) on a chart with no commit handler gives
\* keyAccessor(datum) to the chart's binding first and then, in the same
\* call, redrawAll() of the chart's group redraws every chart registered in
\* that group, in order; no timer is left behind.
C8_ClickFiltersThenRedrawsGroup ==
    (LastCall("onClick") /\ ~charts[trace[1].chart].conf.commitHandler) =>
        LET c == trace[1].chart
            g == getChartGroup(World, c)
        IN /\ Events("dp.filter") = <<Ev("dp.filter", c, <<trace[1].arg[1]>>)>>
           /\ Events("redrawAll") = <<Ev("redrawAll", g, <<>>)>>
           /\ FirstPos("dp.filter") < FirstPos("redrawAll")
           /\ FirstPos("filtered") < FirstPos("redrawAll")
           /\ FirstPos("redrawAll") < FirstPos("_doRedraw")
           /\ ChartsOf("_doRedraw") = registry[g]
           /\ Contains(filters(World, c), trace[1].arg[1])
           /\ timers = <<>>

\* C8's case: a click on a chart whose group has a sibling, which is redrawn
C8_Witness ==
    /\ LastCall("onClick")
    /\ trace[1].chart = "c1"
    /\ ~charts["c1"].conf.commitHandler
    /\ ChartsOf("_doRedraw") = <<"c1", "c2">>
    /\ filters(World, "c1") # <<>>

\* C9: a chart that is a child (anchored to another chart) is in the registry
\* of no chart group.
C9_ChildNeverRegistered ==
    \A c \in Made :
        charts[c].isChild => \A g \in Groups : ~Contains(registry[g], c)

\* C10: a child chart's root is its parent's current root, and its
\* anchorName() the parent's, whatever was done to the parent since.
C10_ChildSharesParentRoot ==
    \A c \in Made :
        charts[c].isChild =>
            /\ getRoot(World, c) = getRoot(World, charts[c].parent)
            /\ anchorName(World, c) = anchorName(World, charts[c].parent)

\* the groups whose registry holds the chart
GroupsOf(c) == {g \in Groups : Contains(registry[g], c)}

\* C11: a root (non-child) chart is registered in exactly one chart group,
\* the one chartGroup() returns.
C11_RootInExactlyItsGroup ==
    \A c \in Made :
        ~charts[c].isChild => GroupsOf(c) = {getChartGroup(World, c)}

\* C12: anchor(target) with a falsy target (none, or the empty string) fails
\* with BadArgumentException and leaves the chart's anchor, root and child
\* flag, every other chart and every group registry as they were; the
\* accessor anchor() returns the anchor the chart holds.
C12_FalsyAnchorThrowsAndChangesNothing ==
    \A c \in Made :
        /\ \A p \in FalsyParents :
               anchor(BeginQuiet, c, p) =
                   [BeginQuiet EXCEPT !.exception = "BadArgumentException"]
        /\ getAnchor(World, c) = charts[c].anchor

\* C12's case: anchor was refused on a chart of a page whose charts are all
\* constructed, one a child and one registered in the second group
C12_Witness ==
    /\ exception = "BadArgumentException"
    /\ Made = AnchorCharts
    /\ \E c \in Made : charts[c].isChild
    /\ registry["g1"] # <<>>

\* what the last call returned to its caller
Returned == Events("return")[1].arg[1]

\* the value the spec gives the accessor after the setter was passed a: a
\* for a number, a(root element) for a callback, and for a falsy value the
\* measured box of the root element if it exceeds the minimum, else the minimum
ExpectedSize(a, c, dim) ==
    LET e == node(getRoot(World, c))
        min == IF dim = "width" THEN charts[c].conf.minWidth
               ELSE charts[c].conf.minHeight
    IN IF a.kind = "number" /\ a.v # 0 THEN a.v
       ELSE IF a.kind = "fn" THEN UserCalc(a.v, e, dim)
       ELSE IF e # "null" /\ dom[e].box[dim] > min THEN dom[e].box[dim]
       ELSE min

\* C13: the accessor width() called next after width(v) returns v for a
\* number, v(root element) for a callback and the default calculation for a
\* falsy v; and so for height.
C13_SetterThenAccessorRoundTrip ==
    [][/\ (LastCall("width=") /\ trace'[1] = Ev("width", trace[1].chart, <<>>))
            => Returned' = ExpectedSize(trace[1].arg[1], trace[1].chart, "width")
       /\ (LastCall("height=") /\ trace'[1] = Ev("height", trace[1].chart, <<>>))
            => Returned' = ExpectedSize(trace[1].arg[1], trace[1].chart, "height")]_vars

\* C13's case: width() computed 200 for a chart on the default calculation
\* whose element measures 80 wide, a callback being what height() goes by
C13_Witness ==
    /\ LastCall("width")
    /\ Events("_widthCalc") # <<>>
    /\ charts[trace[1].chart].widthCalc = DefaultCalc
    /\ charts[trace[1].chart].heightCalc.kind = "fn"
    /\ dom[node(getRoot(World, trace[1].chart))].box.width = 80
    /\ Returned = 200

\* the calls of the calculation function of chart c for dim in a trace
CalcCalls(tr, c, dim) ==
    SelectSeq(tr, LAMBDA e : e.chart = c /\ e.ev = (IF dim = "width" THEN "_widthCalc"
                                                   ELSE "_heightCalc"))

\* the trace is that of a call that invalidates the cached dim of chart c:
\* render(), or the setter of dim
Invalidates(tr, c, dim) ==
    /\ tr # <<>>
    /\ tr[1].chart = c
    /\ tr[1].ev \in {"render", IF dim = "width" THEN "width=" ELSE "height="}

\* the cached value of dim
Cached(ch, c, dim) == IF dim = "width" THEN ch[c].width ELSE ch[c].height

\* C14: no call invokes the calculation function of a chart more than once;
\* a call that is neither render() nor the setter leaves a cached width
\* (height) as it is and does not invoke the calculation function, and the
\* accessor then returns the cached value: so it is with redraw(),
\* configure(), filter(...) and a change of the measured box.
C14_CachedUntilInvalidated ==
    [][\A c \in ChartIds : \A dim \in {"width", "height"} :
          /\ Len(CalcCalls(trace', c, dim)) <= 1
          /\ (isNumber(Cached(charts, c, dim)) /\ ~Invalidates(trace', c, dim)) =>
                /\ Cached(charts', c, dim) = Cached(charts, c, dim)
                /\ CalcCalls(trace', c, dim) = <<>>
                /\ trace'[1] = Ev(dim, c, <<>>) => Returned' = Cached(charts, c, dim)
          /\ (~isNumber(Cached(charts, c, dim)) /\ ~Invalidates(trace', c, dim)
                /\ CalcCalls(trace', c, dim) # <<>>) =>
                isNumber(Cached(charts', c, dim))]_vars

\* C14's case: width() returned the cached 250 although the element now
\* measures 80 and the default calculation would give the minimum
C14_Witness ==
    /\ LastCall("width")
    /\ Events("_widthCalc") = <<>>
    /\ charts[trace[1].chart].widthCalc = DefaultCalc
    /\ dom[node(getRoot(World, trace[1].chart))].box.width = 80
    /\ Returned = 250

\* what the active calculation function of chart c gives for dim now
Fresh(c, dim) ==
    applyCalc(World, c,
              IF dim = "width" THEN charts[c].widthCalc ELSE charts[c].heightCalc,
              node(getRoot(World, c)), dim)

\* C15: render() discards the cached width and height before its first hook:
\* a listener of preRender that reads them makes the calculation functions
\* run and reads what they give now, whatever was cached; with no read
\* inside render() nothing is cached when it returns.  A setter leaves
\* nothing cached, and the accessor called next runs the calculation.
C15_RenderAndSettersDiscardCache ==
    [][/\ \A c \in ChartIds :
            trace'[1] = Ev("render", c, <<>>) =>
                /\ trace'[2] = Ev("preRender", c, <<>>)
                /\ Events("listener")' = <<>> =>
                       /\ charts'[c].width = NoNumber
                       /\ charts'[c].height = NoNumber
                /\ Events("listener")' # <<>> =>
                       /\ trace'[3] = Ev("_widthCalc", c, <<node(getRoot(World, c))>>)
                       /\ trace'[4] = Ev("_heightCalc", c, <<node(getRoot(World, c))>>)
                       /\ trace'[5] = Ev("listener", c,
                                        <<Fresh(c, "width")', Fresh(c, "height")'>>)
       /\ \A c \in ChartIds : \A dim \in {"width", "height"} :
            /\ (trace' # <<>> /\ trace'[1].chart = c
                  /\ trace'[1].ev = (IF dim = "width" THEN "width=" ELSE "height="))
                  => Cached(charts', c, dim) = NoNumber
            /\ (LastCall(IF dim = "width" THEN "width=" ELSE "height=")
                  /\ trace[1].chart = c /\ trace'[1] = Ev(dim, c, <<>>))
                  => /\ Len(CalcCalls(trace', c, dim)) = 1
                     /\ Returned' = Fresh(c, dim)']_vars

\* C15's case: inside render() the preRender listener read the minimum 200
\* for a chart on the default calculation whose element measures 80 wide and
\* whose svg still has the width 250 of the sizes cached before
C15_Witness ==
    /\ LastCall("render")
    /\ Events("listener") # <<>>
    /\ Events("listener")[1].arg[1] = 200
    /\ charts[trace[1].chart].widthCalc = DefaultCalc
    /\ dom[node(getRoot(World, trace[1].chart))].box.width = 80
    /\ svgs[charts[trace[1].chart].svg].width = 250

\* the charts whose work the trace shows after its first n entries, in
\* order, a run of entries of one chart counted once
RECURSIVE Turns(_, _)
Turns(tr, n) ==
    IF Len(tr) <= n THEN <<>>
    ELSE LET rest == Turns(tr, n + 1) IN
         IF rest # <<>> /\ rest[1] = tr[n + 1].chart THEN rest
         ELSE <<tr[n + 1].chart>> \o rest

\* C16: redrawAll() redraws, and renderAll() renders, every registered chart
\* once, in registration order, and all the work of one chart comes before
\* any work of the next.
C16_GroupActionInRegistrationOrder ==
    /\ LastCall("group.redrawAll") =>
          /\ trace[2] = Ev("redrawAll", trace[1].arg[1], <<>>)
          /\ Turns(trace, 2) = registry[trace[1].arg[1]]
          /\ ChartsOf("preRedraw") = registry[trace[1].arg[1]]
          /\ ChartsOf("_doRedraw") = registry[trace[1].arg[1]]
          /\ ChartsOf("pretransition") = registry[trace[1].arg[1]]
    /\ LastCall("group.renderAll") =>
          /\ trace[2] = Ev("renderAll", trace[1].arg[1], <<>>)
          /\ Turns(trace, 2) = registry[trace[1].arg[1]]
          /\ ChartsOf("preRender") = registry[trace[1].arg[1]]
          /\ ChartsOf("_doRender") = registry[trace[1].arg[1]]
          /\ ChartsOf("pretransition") = registry[trace[1].arg[1]]

\* C16's case: redrawAll() on the group of three charts
C16_Witness ==
    /\ LastCall("group.redrawAll")
    /\ registry[trace[1].arg[1]] = <<"c1", "c2", "c3">>
    /\ ChartsOf("_doRedraw") = <<"c1", "c2", "c3">>

\* the hooks and steps of the last call, in order; the header, the size
\* calculations and the interruption of a transition are left out
Steps ==
    LET rest == SelectSeq(Tail(trace),
                          LAMBDA e : e.ev \notin {"_widthCalc", "_heightCalc",
                                                  "interrupt"})
    IN [i \in DOMAIN rest |-> rest[i].ev]

\* the synchronous steps the spec gives render() (pre = "preRender", draw =
\* "_doRender") and redraw() on chart c, in order
FixedOrder(c, pre, draw) ==
    <<pre, draw>>
        \o (IF charts[c].legend THEN <<"legend.render">> ELSE <<>>)
        \o <<"pretransition">>

IsPrefix(p, q) == Len(p) <= Len(q) /\ SubSeq(q, 1, Len(p)) = p

\* C17: the steps of one render() are preRender, the draw step, the legend's
\* render if a legend is attached, pretransition, in that order, and those
\* of one redraw() preRedraw, the draw step, the legend's render,
\* pretransition; whatever renderlet, postRender or postRedraw notification
\* the call fires comes after its pretransition hook; every step is the
\* chart's own.
C17_FixedOrderWithinRenderAndRedraw ==
    /\ LastCall("render") =>
          LET fixed == FixedOrder(trace[1].chart, "preRender", "_doRender") IN
          /\ IsPrefix(fixed, Steps)
          /\ \A i \in DOMAIN Steps :
                 i > Len(fixed) => Steps[i] \in {"renderlet", "postRender"}
          /\ \A i \in DOMAIN trace : trace[i].chart = trace[1].chart
    /\ LastCall("redraw") =>
          LET fixed == FixedOrder(trace[1].chart, "preRedraw", "_doRedraw") IN
          /\ IsPrefix(fixed, Steps)
          /\ \A i \in DOMAIN Steps :
                 i > Len(fixed) => Steps[i] \in {"renderlet", "postRedraw"}
          /\ \A i \in DOMAIN trace : trace[i].chart = trace[1].chart

\* C17's case: a redraw() of the chart with a legend that fired its
\* notifications at once
C17_Witness ==
    /\ LastCall("redraw")
    /\ charts[trace[1].chart].legend
    /\ Steps = <<"preRedraw", "_doRedraw", "legend.render", "pretransition",
                 "renderlet", "postRedraw">>

\* the post event of the call a trace is of
PostEvent(tr) == IF tr[1].ev = "render" THEN "postRender" ELSE "postRedraw"

\* the notifications go through a transition: the configured duration is
\* positive and the chart has an svg
Deferred(c) ==
    charts[c].conf.transitionDuration > 0 /\ charts[c].svg # "none"

\* C18: render() and redraw() fire renderlet and then postRender/postRedraw
\* before they return exactly when the transition duration is not positive
\* or the chart has no svg, and then start no transition; otherwise they
\* fire neither and leave one transition on the svg, and the two fire,
\* renderlet first, when that transition ends.
C18_NotificationsNowOrAtTransitionEnd ==
    [][/\ (trace' # <<>> /\ trace'[1].ev \in {"render", "redraw"}) =>
            LET c == trace'[1].chart
                fixed == FixedOrder(c, IF trace'[1].ev = "render" THEN "preRender"
                                       ELSE "preRedraw",
                                    IF trace'[1].ev = "render" THEN "_doRender"
                                    ELSE "_doRedraw")
            IN /\ ~Deferred(c) =>
                      /\ Steps' = fixed \o <<"renderlet", PostEvent(trace')>>
                      /\ transitions' = transitions
               /\ Deferred(c) =>
                      /\ Steps' = fixed
                      /\ transitions' =
                             [transitions EXCEPT ![charts[c].svg] =
                                 <<[chart |-> c, event |-> PostEvent(trace')]>>]
       /\ (trace' # <<>> /\ trace'[1].ev = "transitionEnd") =>
            \E s \in SvgIds :
                /\ transitions[s] # <<>>
                /\ transitions' = [transitions EXCEPT ![s] = <<>>]
                /\ trace'[1].chart = transitions[s][1].chart
                /\ Steps' = <<"renderlet", transitions[s][1].event>>]_vars

\* C18's case: the transition of a render() ended and fired renderlet and
\* postRender
C18_Witness ==
    /\ LastCall("transitionEnd")
    /\ Steps = <<"renderlet", "postRender">>
    /\ Deferred(trace[1].chart)

\* the renderlet, postRender and postRedraw notifications in a trace
Notifications(tr) ==
    SelectSeq(tr, LAMBDA e : e.ev \in {"renderlet", "postRender", "postRedraw"})

\* C19: an svg has at most one transition whose end is awaited.  A render()
\* or redraw() that starts a transition while one is awaited interrupts that
\* one, fires nothing, and leaves its own as the only one awaited; the end of
\* a transition fires the notifications of the awaited one, once, and leaves
\* none awaited: the callback of an interrupted transition never runs.
C19_SupersededTransitionNeverFires ==
    [][\A s \in SvgIds :
          /\ Len(transitions'[s]) <= 1
          /\ (/\ transitions[s] # <<>>
              /\ trace' # <<>>
              /\ trace'[1].ev \in {"render", "redraw"}
              /\ charts[trace'[1].chart].svg = s
              /\ Deferred(trace'[1].chart)) =>
                /\ transitions'[s] =
                       <<[chart |-> trace'[1].chart, event |-> PostEvent(trace')]>>
                /\ Events("interrupt")' =
                       <<Ev("interrupt", transitions[s][1].chart,
                            <<transitions[s][1].event>>)>>
                /\ Notifications(trace') = <<>>
          /\ (/\ transitions[s] # <<>>
              /\ trace' # <<>>
              /\ trace'[1].ev = "transitionEnd"
              /\ transitions'[s] # transitions[s]) =>
                /\ transitions'[s] = <<>>
                /\ Notifications(trace') =
                       <<Ev("renderlet", transitions[s][1].chart, <<>>),
                         Ev(transitions[s][1].event, transitions[s][1].chart, <<>>)>>]_vars

\* C19's case: a redraw() interrupted the transition of a render() and left
\* its own awaited
C19_Witness ==
    /\ LastCall("redraw")
    /\ Events("interrupt") = <<Ev("interrupt", trace[1].chart, <<"postRender">>)>>
    /\ transitions[charts[trace[1].chart].svg] =
           <<[chart |-> trace[1].chart, event |-> "postRedraw"]>>


\* the binding of chart c has been disposed
Disposed(c) ==
    /\ dpOf(World, c) # ""
    /\ dp[dpOf(World, c)].disposed > 0

\* C20: disposed is terminal.  A render() or redraw() on a chart whose
\* binding dispose() has released fires no hook and runs no draw step: the
\* call leaves nothing but its own header in the trace.
C20_NoRenderOrRedrawAfterDispose ==
    (/\ trace # <<>>
     /\ trace[1].ev \in {"render", "redraw"}
     /\ Disposed(trace[1].chart)) => Steps = <<>>


---------------------------------------------------------------------------
(* Data providers being attached, replaced and disposed, and charts moved
   between groups: c1 is there, c2 is constructed on the way *)

InitBinding ==
    Start(constructor(EmptyWorld, "c1", ParentArg("string", <<"#", "a">>),
                      GroupArg("none", "")))

\* the charts of this specification
BindingCharts == {"c1", "c2"}

\* the data providers a caller passes to c.dataProvider(): the one c holds,
\* one c held before, or a new CFSimpleAdapter()
Offered(c) ==
    {b \in BindingIds : dp[b].made /\ dp[b].conf.owner = c}
        \cup {b \in BindingIds : ~dp[b].made /\ b = NewBinding(World)}

\* the caller's new CFSimpleAdapter(), if b is one
Given(w, b) ==
    IF w.dp[b].made THEN w ELSE [w EXCEPT !.dp[b] = [NoBinding EXCEPT !.made = TRUE]]

\* the chart groups callers name here: the default one and "g1"
BindingGroupArgs == {GroupArg("none", ""), GroupArg("name", "g1")}

\* the constructor makes a new CFSimpleAdapter(): one is left to make
BindingConstruct ==
    \E c \in BindingCharts \ Made, g \in BindingGroupArgs :
        /\ \E b \in BindingIds : ~dp[b].made
        /\ Commit(constructor(Begin("new", c, <<>>), c,
                              ParentArg("element", <<"e2">>), g))

DataProvider ==
    \E c \in Made :
        \E b \in Offered(c) :
            /\ dp[dpOf(World, c)].disposed < MaxDisposals
            /\ Commit(dataProvider(Given(Begin("dataProvider", c, <<b>>), b), c, b))

BindingDispose ==
    \E c \in Made :
        /\ dp[dpOf(World, c)].disposed < MaxDisposals
        /\ Commit(dispose(Begin("dispose", c, <<>>), c))

BindingChartGroup ==
    \E c \in Made, g \in BindingGroupArgs :
        Commit(chartGroup(Begin("chartGroup", c, <<g.t, g.v>>), c, g))

NextBinding ==
    \/ BindingConstruct
    \/ DataProvider
    \/ BindingDispose
    \/ BindingChartGroup

SpecBinding == InitBinding /\ [][NextBinding]_vars

\* C21: a chart holds one data provider.  A call c.dataProvider(b) with a b
\* that is not disposed leaves b attached to c, configured for c and not
\* disposed, and the data provider c held before it, if another, disposed
\* once more.
C21_DataProviderAttachesLiveBinding ==
    [][(/\ trace' # <<>>
        /\ trace'[1].ev = "dataProvider"
        /\ dp[trace'[1].arg[1]].disposed = 0) =>
          LET c == trace'[1].chart
              b == trace'[1].arg[1]
              prev == charts[c].dataProvider
          IN /\ charts'[c].dataProvider = b
             /\ dp'[b].conf.owner = c
             /\ dp'[b].disposed = 0
             /\ (prev # "" /\ prev # b) =>
                    dp'[prev].disposed = dp[prev].disposed + 1]_vars


\* C22: the data provider of every chart registered in a group is
\* configured with the filter storage of that group, so the members of one
\* group share one.
C22_MembersShareGroupFilterStorage ==
    \A g \in Groups :
        \A i \in DOMAIN registry[g] :
            dp[charts[registry[g][i]].dataProvider].conf.filterStorage =
                filterStorage(g)


\* C28: a chart calls dispose() at most once on a data provider it holds or
\* held, whatever dispose() and dataProvider() calls are made.  (Here a data
\* provider is only ever given to one chart, so every call counted is that
\* chart's.)
C28_BindingDisposedAtMostOnce ==
    \A b \in BindingIds : dp[b].disposed <= 1


\* where the data provider told its chart that the filters changed
NotifiedAt == {i \in DOMAIN trace : trace[i].ev = "dp.filter"}

\* C23: whenever the data provider tells a chart that its filters changed,
\* the chart first invokes the `filtered` hook once, with the filters as they
\* now are, and then sets the controls and does nothing more: they are turned
\* on if the chart has a filter and turned off if it has none.
C23_FilteredHookThenControls ==
    \A i \in NotifiedAt :
        LET c == trace[i].chart
            ctl == IF hasFilter(World, c) THEN "on" ELSE "off"
        IN /\ Len(trace) = i + 2
           /\ trace[i + 1] = Ev("filtered", c, filters(World, c))
           /\ trace[i + 2] =
                  Ev(IF ctl = "on" THEN "turnOnControls" ELSE "turnOffControls",
                     c, <<>>)
           /\ dom[getRoot(World, c)].controls = ctl

\* C23's case: a chart that had a filter was told that it has none left, and
\* turned its controls off
C23_Witness ==
    /\ NotifiedAt # {}
    /\ trace[2].ev = "was"
    /\ trace[2].arg # <<>>
    /\ Events("turnOffControls") # <<>>
    /\ dom[getRoot(World, trace[1].chart)].controls = "off"


---------------------------------------------------------------------------
(* Rendering when every transition that is awaited ends at last, unless it
   is interrupted first *)

SpecRenderLive == SpecRender /\ WF_vars(TransitionEnd)

\* the last operation was the call c.name()
Called(name, c) == LastCall(name) /\ trace[1].chart = c

\* the last operation fired the notification on c, after a renderlet
\* notification of c
FiredAfterRenderlet(event, c) ==
    \E i, j \in DOMAIN trace :
        /\ i < j
        /\ trace[i] = Ev("renderlet", c, <<>>)
        /\ trace[j] = Ev(event, c, <<>>)

\* C24: when the transitions that are awaited end at last, every render()
\* call leads to a postRender notification and every redraw() call to a
\* postRedraw notification, each fired after a renderlet notification.
C24_PostNotificationFollowsEveryCall ==
    \A c \in ChartIds :
        /\ Called("render", c) ~> FiredAfterRenderlet("postRender", c)
        /\ Called("redraw", c) ~> FiredAfterRenderlet("postRedraw", c)


\* how many times a redrawAll() of group g, made now, redraws chart c
TimesRedrawn(g, c) ==
    LET tr == redrawAll(Begin("group.redrawAll", "", <<g>>), g).trace
    IN Cardinality({i \in DOMAIN tr : tr[i] = Ev("_doRedraw", c, <<>>)})

LatestDelayedBefore(n) ==
    IF \E q \in DelayedCalls : q < n
    THEN CHOOSE q \in DelayedCalls :
             q < n /\ \A r \in DelayedCalls : r < n => r <= q
    ELSE 0

\* C26: the trigger has one pending slot for all callers.  It holds the
\* action of the latest delayed call, whoever made it; a timer that fires
\* runs its action, once, if that is the action the slot holds and drops it
\* otherwise.  So of two delayed calls with different actions, the second
\* made before the timer of the first fires and nothing after, the first
\* action is dropped and the second runs.
C26_OnePendingSlotForAllCallers ==
    /\ current = IF DelayedCalls = {} THEN NullClosure
                 ELSE hist[LatestDelayedBefore(Len(hist) + 1)].closure
    /\ \A p \in DelayedCalls :
           FirePos(TimerOf(p)) # 0 =>
               LET last == LatestDelayedBefore(FirePos(TimerOf(p)))
               IN IF hist[last].closure = hist[p].closure
                  THEN Cardinality(RanBy(TimerOf(p))) = 1
                  ELSE RanBy(TimerOf(p)) = {}

\* C26's case: two delayed calls with different actions, the second made
\* while the timer of the first was pending; both timers fired, the first
\* action was dropped and the second ran
C26_Witness ==
    \E p, q \in DelayedCalls :
        /\ MadeWhilePending(q, p)
        /\ hist[p].closure # hist[q].closure
        /\ FirePos(TimerOf(p)) # 0 /\ FirePos(TimerOf(q)) # 0
        /\ RanBy(TimerOf(p)) = {}
        /\ Cardinality(RanBy(TimerOf(q))) = 1


---------------------------------------------------------------------------
(* A chart with a commit handler is moved between groups while the handler
   holds continuations: c1 and c2 are in the default group, c3 in "g1" *)

InitMove == Start(configure(PageWorld, "c1", [commitHandler |-> TRUE]))

\* the chart that is moved
MovedCharts == {"c1"}

MoveChart ==
    \E c \in MovedCharts, g \in {GroupArg("name", "g1"), GroupArg("group", "g0")} :
        Commit(chartGroup(Begin("chartGroup", c, <<g.v>>), c, g))

NextMove ==
    \/ RedrawGroup
    \/ RenderGroup
    \/ MoveChart
    \/ ContinueError
    \/ ContinueResult
    \/ TransitionEnd

SpecMove == InitMove /\ [][NextMove]_vars

\* C27: a continuation called without error acts on the group chartGroup()
\* returns when it is called: that group's redrawAll() or renderAll() is
\* invoked, once, its members are redrawn or rendered, in order, and no
\* other chart is, wherever the chart was when it asked.
C27_ContinuationUsesCurrentGroup ==
    (LastCall("continuation") /\ trace[1].arg[1] = "result") =>
        LET c == trace[1].chart
            g == getChartGroup(World, c)
            drawn == IF trace[1].arg[2] = "redrawAll"
                     THEN ChartsOf("_doRedraw") ELSE ChartsOf("_doRender")
        IN /\ SelectSeq(trace, LAMBDA e : e.ev \in GroupEvents) =
                  <<Ev(trace[1].arg[2], g, <<>>)>>
           /\ drawn = registry[g]
           /\ \A i \in DOMAIN trace : trace[i].ev \in DrawEvents =>
                  Contains(registry[g], trace[i].chart)

\* C27's case: c1 asked for a redraw in the default group, every time, was
\* moved to "g1", and the continuation redrew c3 and c1 and left c2 alone
C27_Witness ==
    /\ LastCall("continuation")
    /\ trace[1].arg = <<"result", "redrawAll">>
    /\ requests # <<>>
    /\ \A r \in DOMAIN requests : requests[r].asked = "g0"
    /\ getChartGroup(World, "c1") = "g1"
    /\ ChartsOf("_doRedraw") = <<"c3", "c1">>
    /\ Contains(registry["g0"], "c2")

===========================================================================
